---- MODULE Spec2Model ----
(***************************************************************************)
(* Time-frequency reassignment (src/tfr/reassignment.py).                  *)
(*                                                                         *)
(* Every function of the module is pure, so a behaviour is one call: Init  *)
(* draws the function and its arguments, the function's action computes    *)
(* the result.                                                             *)
(*                                                                         *)
(* Number representation (TLC has integers only):                          *)
(*  - a complex number is a Gaussian integer [re, im];                     *)
(*  - a phase is a whole number of eighths of a turn, exact because the    *)
(*    spectra are drawn from the axes and the diagonals, a set closed      *)
(*    under product and conjugate;                                         *)
(*  - a time is a whole number of ticks of eps seconds (EpsDen ticks per   *)
(*    second), sample rates divide EpsDen;                                 *)
(*  - a normalized frequency is a whole number of eighths of the sample    *)
(*    rate, as arg returns it;                                             *)
(*  - a pitch is a whole number of steps of 1 / bin_division.              *)
(***************************************************************************)
EXTENDS Integers, Sequences, FiniteSets, TLC

VARIABLES pc, fn, args, ret

vars == <<pc, fn, args, ret>>

\* ---------------------------------------------------------------- bounds

\* largest absolute value of a component of a drawn complex number
MaxC == 1
\* largest sample value of a drawn real array
MaxVal == 1
\* largest number of rows (blocks) of a drawn array
MaxRows == 2
\* largest number of columns of a drawn array
MaxCols == 3

\* ------------------------------------------------------------- utilities

Abs(n) == IF n < 0 THEN -n ELSE n

RECURSIVE SumSeq(_)
SumSeq(s) == IF s = <<>> THEN 0 ELSE Head(s) + SumSeq(Tail(s))

NoRet == <<>>

Ok(v) == [ok |-> TRUE, value |-> v]

Raise(e) == [ok |-> FALSE, error |-> e]

\* ------------------------------------------------------- complex numbers

Cx(r, i) == [re |-> r, im |-> i]

CxMul(a, b) == Cx(a.re * b.re - a.im * b.im, a.re * b.im + a.im * b.re)

\* ndarray.conj() of one element
conj(a) == Cx(a.re, -a.im)

OnEightDirections(z) == z.re = 0 \/ z.im = 0 \/ Abs(z.re) = Abs(z.im)

Gaussian(m) == {z \in [re : (-m)..m, im : (-m)..m] : OnEightDirections(z)}

\* ---------------------------------------------------------- cross_spectrum

\* a plausible slip: the conjugate is forgotten
cross_spectrum_noconj(spectrumA, spectrumB) ==
    [i \in 1..Len(spectrumA) |-> CxMul(spectrumA[i], spectrumB[i])]

\* spectrumA * spectrumB.conj(), elementwise
cross_spectrum(spectrumA, spectrumB) ==
    [i \in 1..Len(spectrumA) |-> CxMul(spectrumA[i], conj(spectrumB[i]))]

\* ------------------------------------------------------------- shift_right

\* An ndarray: ndim, shape, dtype and data (ndim = 1: a sequence of
\* elements; ndim = 2: a sequence of rows).
Array1(dt, d) == [ndim |-> 1, shape |-> <<Len(d)>>, dtype |-> dt, data |-> d]

Array2(dt, b, n, d) == [ndim |-> 2, shape |-> <<b, n>>, dtype |-> dt, data |-> d]

ZeroOf(dt) == IF dt = "complex" THEN Cx(0, 0) ELSE 0

\* values[..., :-1] of one row
DropLast(row) == IF Len(row) = 0 THEN row ELSE SubSeq(row, 1, Len(row) - 1)

\* the np.roll() the TODO of the source suggests: the last element wraps
shift_right_roll(values) ==
    IF values.ndim = 1
    THEN Raise("ValueError")
    ELSE Ok(Array2(values.dtype, values.shape[1],
                   IF values.shape[2] = 0 THEN 1 ELSE values.shape[2],
                   [r \in 1..values.shape[1] |->
                       IF values.shape[2] = 0 THEN <<ZeroOf(values.dtype)>>
                       ELSE <<values.data[r][values.shape[2]]>>
                            \o DropLast(values.data[r])]))

\* a version that accepts a 1-dimensional array and shifts it
shift_right_any_rank(values) ==
    IF values.ndim = 1
    THEN Ok(Array1(values.dtype,
                   IF Len(values.data) = 0 THEN <<>>
                   ELSE <<ZeroOf(values.dtype)>> \o DropLast(values.data)))
    ELSE Ok(Array2(values.dtype, values.shape[1],
                   IF values.shape[2] = 0 THEN 1 ELSE values.shape[2],
                   [r \in 1..values.shape[1] |->
                       <<ZeroOf(values.dtype)>> \o DropLast(values.data[r])]))

\* np.hstack([np.zeros((values.shape[0], 1)), values[..., :-1]]).
\* The zeros are 2-dimensional; for a 1-dimensional values the slice is
\* 1-dimensional and hstack (concatenate along axis 1) raises ValueError.
\* For shape [b, n] the slice is [b, max(n - 1, 0)], the result
\* [b, 1 + max(n - 1, 0)].
shift_right(values) ==
    IF values.ndim = 1
    THEN Raise("ValueError")
    ELSE Ok(Array2(values.dtype, values.shape[1],
                   IF values.shape[2] = 0 THEN 1 ELSE values.shape[2],
                   [r \in 1..values.shape[1] |->
                       <<ZeroOf(values.dtype)>> \o DropLast(values.data[r])]))

\* ------------------------------------------------ arg and the estimators

\* np.angle() of one element, in eighths of a turn: -4..4 ([-pi, pi]);
\* np.angle(0) is 0.
Angle8(z) ==
    IF z.im = 0 THEN (IF z.re >= 0 THEN 0 ELSE 4)
    ELSE IF z.re = 0 THEN (IF z.im > 0 THEN 2 ELSE -2)
    ELSE IF z.re > 0 THEN (IF z.im > 0 THEN 1 ELSE -1)
    ELSE (IF z.im > 0 THEN 3 ELSE -3)

\* a plausible slip: the wrap modulo 1 is forgotten
arg_nowrap(values) == [i \in 1..Len(values) |-> Angle8(values[i])]

\* np.mod(np.angle(values) / (2 * np.pi), 1.0), in eighths (of a turn)
arg(values) == [i \in 1..Len(values) |-> Angle8(values[i]) % 8]

estimate_instant_freqs(crossTimeSpectrum) == arg(crossTimeSpectrum)

\* 0.5 - arg(crossFreqSpectrum), in eighths
estimate_group_delays(crossFreqSpectrum) ==
    [i \in 1..Len(crossFreqSpectrum) |-> 4 - arg(crossFreqSpectrum)[i]]

\* --------------------------------------------------------- compute_spectra

\* x * w of one row (w has the row's length)
Windowed(row, w) == [i \in 1..Len(row) |-> row[i] * w[i]]

\* np.fft.fft of one real row.  Blocks have 1 or 2 samples: the DFT of such
\* a block is real, so every phase below is exact.
FFT(row) ==
    IF Len(row) = 0 THEN <<>>
    ELSE IF Len(row) = 1 THEN <<Cx(row[1], 0)>>
    ELSE <<Cx(row[1] + row[2], 0), Cx(row[1] - row[2], 0)>>

\* np.fft.fft(x * w) over the last axis of a 2-dimensional x
WindowedFFT(rows, w) == [r \in 1..Len(rows) |-> FFT(Windowed(rows[r], w))]

\* abs() of a complex number on an axis
CxAbs(z) == Abs(z.re) + Abs(z.im)

\* spectrogram.select_positive_freq_fft: bins 0..N/2 (DC to Nyquist)
select_positive_freq_fft(rows) ==
    [r \in 1..Len(rows) |-> SubSeq(rows[r], 1, (Len(rows[r]) \div 2) + 1)]

\* spectrogram.positive_freq_magnitudes: the same bins, the ones that are
\* neither DC nor Nyquist doubled
positive_freq_magnitudes(rows) ==
    [r \in 1..Len(rows) |->
        [i \in 1..((Len(rows[r]) \div 2) + 1) |->
            IF i > 1 /\ i < (Len(rows[r]) \div 2) + 1
            THEN 2 * rows[r][i] ELSE rows[r][i]]]

\* compute_spectra(x, w, positive_only).  X_mag is in units of
\* 1 / X.shape[1].  A 1-dimensional x passes line 69 (a 1-dimensional FFT)
\* and raises IndexError at X.shape[1], line 70; shift_right (line 77)
\* would raise as well.
compute_spectra(x, w, positive_only) ==
    IF x.ndim = 1
    THEN Raise("IndexError")
    ELSE
    LET X == WindowedFFT(x.data, w)
        X_mag == [r \in 1..Len(X) |-> [i \in 1..Len(X[r]) |-> CxAbs(X[r][i])]]
        x_shifted == shift_right(x)
        X_shifted == shift_right(Array2("complex", x.shape[1], x.shape[2], X))
    IN  IF ~x_shifted.ok THEN x_shifted
        ELSE IF ~X_shifted.ok THEN X_shifted
        ELSE
        LET X_prev_time == WindowedFFT(x_shifted.value.data, w)
            X_prev_freq == X_shifted.value.data
            X_cross_time ==
                [r \in 1..Len(X) |-> cross_spectrum(X[r], X_prev_time[r])]
            X_cross_freq ==
                [r \in 1..Len(X) |-> cross_spectrum(X[r], X_prev_freq[r])]
            X_inst_freqs ==
                [r \in 1..Len(X) |-> estimate_instant_freqs(X_cross_time[r])]
            X_group_delays ==
                [r \in 1..Len(X) |-> estimate_group_delays(X_cross_freq[r])]
        IN  IF positive_only
            THEN Ok([X |-> select_positive_freq_fft(X),
                     X_mag |-> positive_freq_magnitudes(X_mag),
                     X_cross_time |-> select_positive_freq_fft(X_cross_time),
                     X_cross_freq |-> select_positive_freq_fft(X_cross_freq),
                     X_inst_freqs |-> select_positive_freq_fft(X_inst_freqs),
                     X_group_delays |-> select_positive_freq_fft(X_group_delays)])
            ELSE Ok([X |-> X, X_mag |-> X_mag,
                     X_cross_time |-> X_cross_time,
                     X_cross_freq |-> X_cross_freq,
                     X_inst_freqs |-> X_inst_freqs,
                     X_group_delays |-> X_group_delays])

\* ------------------------------------- calls of the cross-spectral primitives

\* sequences over S of length n
SeqsOf(S, n) == [1..n -> S]

SeqsUpTo(S, n) == UNION {SeqsOf(S, k) : k \in 0..n}

\* two-dimensional arrays of shape [b, n] over S
Rows(S, b, n) == [1..b -> SeqsOf(S, n)]

Samples == 0..MaxVal

Windows(n) == SeqsOf(1..2, n)

BlockLens == {1, 2}

InitPrim ==
    /\ pc = "call"
    /\ ret = NoRet
    /\ \/ /\ fn = "cross_spectrum"
          /\ \E n \in 1..2 :
                args \in [spectrumA : SeqsOf(Gaussian(MaxC), n),
                          spectrumB : SeqsOf(Gaussian(MaxC), n)]
       \/ /\ fn = "shift_right"
          /\ \/ \E d \in SeqsUpTo(Samples, MaxCols) :
                   args = [values |-> Array1("float", d)]
             \/ \E b \in 0..2, n \in 0..MaxCols : \E d \in Rows(Samples, b, n) :
                   args = [values |-> Array2("float", b, n, d)]
             \/ args = [values |-> Array2("float", 1, 4, <<<<1, 2, 3, 4>>>>)]
             \/ \E a \in Gaussian(MaxC) :
                   args = [values |-> Array2("complex", 1, 2, <<<<a, Cx(1, 0)>>>>)]
       \/ /\ fn = "arg"
          /\ args \in [values : SeqsOf(Gaussian(MaxC + 1), 1)]
       \/ /\ fn = "estimate_group_delays"
          /\ args \in [crossFreqSpectrum : SeqsOf(Gaussian(MaxC + 1), 1)]
       \/ /\ fn = "compute_spectra"
          /\ \/ \E d \in SeqsOf((-1)..MaxVal, 2), w \in Windows(2), p \in BOOLEAN :
                   args = [x |-> Array1("float", d), w |-> w, positive_only |-> p]
             \/ \E b \in 1..MaxRows, n \in BlockLens :
                   \E d \in Rows((-1)..MaxVal, b, n), w \in Windows(n), p \in BOOLEAN :
                      args = [x |-> Array2("float", b, n, d), w |-> w,
                              positive_only |-> p]

Return(v) ==
    /\ ret' = v
    /\ pc' = "done"
    /\ UNCHANGED <<fn, args>>

CallCrossSpectrum ==
    /\ pc = "call" /\ fn = "cross_spectrum"
    /\ Return(cross_spectrum(args.spectrumA, args.spectrumB))

CallShiftRight ==
    /\ pc = "call" /\ fn = "shift_right"
    /\ Return(shift_right(args.values))

CallArg ==
    /\ pc = "call" /\ fn = "arg"
    /\ Return(arg(args.values))

CallEstimateGroupDelays ==
    /\ pc = "call" /\ fn = "estimate_group_delays"
    /\ Return(estimate_group_delays(args.crossFreqSpectrum))

CallComputeSpectra ==
    /\ pc = "call" /\ fn = "compute_spectra"
    /\ Return(compute_spectra(args.x, args.w, args.positive_only))

NextPrim ==
    \/ CallCrossSpectrum
    \/ CallShiftRight
    \/ CallArg
    \/ CallEstimateGroupDelays
    \/ CallComputeSpectra

SpecPrim == InitPrim /\ [][NextPrim]_vars

Done(f) == pc = "done" /\ fn = f

\* ------------------------------------------ cross-spectral primitives: claims

ConjAll(spectrum) == [i \in 1..Len(spectrum) |-> conj(spectrum[i])]

\* C5: for a 2-dimensional input of shape [b, n] with n >= 1, shift_right
\* returns an array of the same shape whose rows start with an exact zero
\* followed by the input row without its last element (no wrap-around); an
\* all-zero input gives an all-zero output and [[1,2,3,4]] gives [[0,1,2,3]].
C5_ShiftRightShifts ==
    (Done("shift_right") /\ args.values.ndim = 2 /\ args.values.shape[2] >= 1)
    => /\ ret.ok
       /\ ret.value.ndim = 2
       /\ ret.value.shape = args.values.shape
       /\ Len(ret.value.data) = args.values.shape[1]
       /\ \A r \in 1..args.values.shape[1] :
            /\ Len(ret.value.data[r]) = args.values.shape[2]
            /\ ret.value.data[r][1] = ZeroOf(args.values.dtype)
            /\ \A j \in 2..args.values.shape[2] :
                  ret.value.data[r][j] = args.values.data[r][j - 1]
       /\ (\A r \in 1..args.values.shape[1] : \A j \in 1..args.values.shape[2] :
              args.values.data[r][j] = ZeroOf(args.values.dtype))
          => (\A r \in 1..args.values.shape[1] : \A j \in 1..args.values.shape[2] :
                 ret.value.data[r][j] = ZeroOf(args.values.dtype))
       /\ args.values.data = <<<<1, 2, 3, 4>>>>
          => ret.value.data = <<<<0, 1, 2, 3>>>>

C5_Witness ==
    /\ Done("shift_right")
    /\ args.values.ndim = 2
    /\ args.values.data = <<<<1, 2, 3, 4>>>>
    /\ ret.ok
    /\ ret.value.data = <<<<0, 1, 2, 3>>>>

\* C6: cross_spectrum(A, B) is the elementwise complex conjugate of
\* cross_spectrum(B, A).
C6_CrossSpectrumConjugateSymmetric ==
    Done("cross_spectrum")
    => ret = ConjAll(cross_spectrum(args.spectrumB, args.spectrumA))

C6_Witness ==
    /\ Done("cross_spectrum")
    /\ \E i \in 1..Len(ret) : ret[i].im # 0
    /\ ret = ConjAll(cross_spectrum(args.spectrumB, args.spectrumA))

\* C7: the result of cross_spectrum does not depend on the order of its
\* arguments: cross_spectrum(A, B) = cross_spectrum(B, A).
C7_CrossSpectrumOrderIndependent ==
    Done("cross_spectrum")
    => ret = cross_spectrum(args.spectrumB, args.spectrumA)

\* C8: every group delay 0.5 - arg(z) lies within [-0.5, 0.5] (in eighths:
\* -4..4), arg(z) being the phase in turns modulo 1 (in eighths: 0..7).
C8_GroupDelayInRange ==
    /\ Done("estimate_group_delays")
       => \A i \in 1..Len(ret) : -4 <= ret[i] /\ ret[i] <= 4
    /\ Done("arg")
       => \A i \in 1..Len(ret) : 0 <= ret[i] /\ ret[i] < 8

C8_Witness ==
    /\ Done("estimate_group_delays")
    /\ Angle8(args.crossFreqSpectrum[1]) < 0
    /\ ret[1] < 0

\* C9: shift_right of a 1-dimensional array ends in an error and returns no
\* array, and compute_spectra of a 1-dimensional x ends in an error too.
C9_OneDimensionalInputFails ==
    /\ (Done("shift_right") /\ args.values.ndim = 1) => ~ret.ok
    /\ (Done("compute_spectra") /\ args.x.ndim = 1) => ~ret.ok

C9_Witness ==
    /\ Done("shift_right")
    /\ args.values.ndim = 1
    /\ Len(args.values.data) >= 2
    /\ ~ret.ok

\* ------------------------------------------ requantize_tf_spectrogram_common

\* np.finfo(np.float32).eps is 2^-23: a time is a whole number of ticks of
\* eps seconds, EpsDen of them in a second
EpsDen == 8388608

\* a slip in the edge rule: the right edge of the range is dropped, too
BinIndex_half_open(v, lo, hi, n) ==
    IF v < lo \/ v >= hi THEN -1
    ELSE ((v - lo) * n) \div (hi - lo)

\* index of the equal-width bin of v among n bins over [lo, hi]:
\* floor((v - lo) * n / (hi - lo)), the last edge counted into the last bin;
\* -1 for a value outside the range (dropped)
BinIndex(v, lo, hi, n) ==
    IF v < lo \/ v > hi THEN -1
    ELSE IF v = hi THEN n - 1
    ELSE ((v - lo) * n) \div (hi - lo)

\* np.histogram2d(x, y, weights=weights, range=(x_range, y_range),
\* bins=(nx, ny)): ValueError for a bin count below 1 or an empty range
\* (max < min), else the grid of summed weights, row r and column c
\* numbered from 1.  weights = <<>> stands for None (each sample counts 1).
histogram2d(x, y, weights, x_range, y_range, nx, ny) ==
    IF nx < 1 \/ ny < 1 THEN Raise("ValueError")
    ELSE IF x_range[2] < x_range[1] \/ y_range[2] < y_range[1]
    THEN Raise("ValueError")
    ELSE IF Len(x) # Len(y) \/ (weights # <<>> /\ Len(weights) # Len(x))
    THEN Raise("ValueError")
    ELSE Ok([r \in 1..nx |-> [c \in 1..ny |->
            SumSeq([i \in 1..Len(x) |->
                IF /\ BinIndex(x[i], x_range[1], x_range[2], nx) = r - 1
                   /\ BinIndex(y[i], y_range[1], y_range[2], ny) = c - 1
                THEN (IF weights = <<>> THEN 1 ELSE weights[i])
                ELSE 0])]])

\* a slip: the frame count is rounded up instead of floored
output_frame_count_ceil(times, block_size, output_frame_size, fs) ==
    ((times[Len(times)] + (block_size * EpsDen) \div fs) * fs
        + output_frame_size * EpsDen - 1) \div (output_frame_size * EpsDen)

\* lines 152-154: (end_input_time * fs) // output_frame_size, times in ticks
output_frame_count(times, block_size, output_frame_size, fs) ==
    ((times[Len(times)] + (block_size * EpsDen) \div fs) * fs)
        \div (output_frame_size * EpsDen)

\* line 155: time_range, in ticks
time_range(times, block_size, output_frame_size, fs) ==
    <<0, (output_frame_count(times, block_size, output_frame_size, fs)
            * output_frame_size * EpsDen) \div fs>>

\* X_time and X_y are the flattened coordinates, bin_range and X_y are in
\* one unit.  Returns the counts with the shape and the ranges that fix the
\* (equally spaced) x_edges and y_edges.
requantize_tf_spectrogram_common(X_time, X_y, times, block_size, output_frame_size, output_bin_count, bin_range, fs, weights) ==
    LET count == output_frame_count(times, block_size, output_frame_size, fs)
        trange == time_range(times, block_size, output_frame_size, fs)
        hist == histogram2d(X_time, X_y, weights, trange, bin_range,
                            count, output_bin_count)
    IN  IF hist.ok
        THEN Ok([counts |-> hist.value,
                 shape |-> <<count, output_bin_count>>,
                 x_range |-> trange,
                 y_range |-> bin_range])
        ELSE hist

\* ------------------------------------------------- calls of the requantizer

\* largest output frame size, in samples
MaxFrame == 3
\* latest start of the last block, in half samples
MaxStart == 2
\* largest weight of a sample
MaxW == 2
SampleRates == {1, 2}

\* start times in ticks: one block, or a first block at 0 and a later one
TimesOf(fs) ==
    {<<(h * EpsDen) \div (2 * fs)>> : h \in 0..MaxStart}
    \cup {<<0, (h * EpsDen) \div (2 * fs)>> : h \in 1..MaxStart}

BinRanges == {<<0, 4>>, <<-1, 2>>}

\* time coordinates: just outside, on and just inside the left edge, and
\* the half seconds up to 2 s
TimeCoords == {-1, 0, 1} \cup {(k * EpsDen) \div 2 : k \in 1..4}

YCoords == (-2)..5

Grids ==
    [times : UNION {TimesOf(f) : f \in SampleRates},
     block_size : {2}, output_frame_size : 1..MaxFrame,
     output_bin_count : 0..3, bin_range : BinRanges]

\* one sample with every coordinate, or two samples with coarser ones
SampleSets ==
    [X_time : SeqsOf(TimeCoords, 1), X_y : SeqsOf(YCoords, 1),
     weights : SeqsOf(1..MaxW, 1) \cup {<<>>}]
    \cup [X_time : SeqsOf({-1, 1, EpsDen}, 2),
          X_y : SeqsOf({1, 2}, 2),
          weights : SeqsOf(1..2, 2)]

InitRequant ==
    /\ pc = "call"
    /\ ret = NoRet
    /\ fn = "requantize_tf_spectrogram_common"
    /\ \E g \in Grids, f \in SampleRates, smp \in SampleSets :
          /\ g.times \in TimesOf(f)
          /\ args = [X_time |-> smp.X_time, X_y |-> smp.X_y,
                     times |-> g.times, block_size |-> g.block_size,
                     output_frame_size |-> g.output_frame_size,
                     output_bin_count |-> g.output_bin_count,
                     bin_range |-> g.bin_range, fs |-> f,
                     weights |-> smp.weights]

CallRequantize ==
    /\ pc = "call" /\ fn = "requantize_tf_spectrogram_common"
    /\ Return(requantize_tf_spectrogram_common(args.X_time, args.X_y,
            args.times, args.block_size, args.output_frame_size,
            args.output_bin_count, args.bin_range, args.fs, args.weights))

NextRequant == CallRequantize

SpecRequant == InitRequant /\ [][NextRequant]_vars

\* ------------------------------------------------------ requantizer: claims

\* the end of the last block, in ticks times fs: (times[last] + block_size/fs) * fs
EndTimesFs == args.times[Len(args.times)] * args.fs + args.block_size * EpsDen

\* one output frame, in ticks times fs
FrameTimesFs == args.output_frame_size * EpsDen

\* floor(end of the last block * fs / output_frame_size), by its definition
ExpectedFrames ==
    CHOOSE n \in 0..(EndTimesFs \div EpsDen) :
        n * FrameTimesFs <= EndTimesFs /\ EndTimesFs < (n + 1) * FrameTimesFs

ShapeIsExpected ==
    /\ ret.ok
    /\ ret.value.shape = <<ExpectedFrames, args.output_bin_count>>
    /\ Len(ret.value.counts) = ExpectedFrames
    /\ \A r \in 1..ExpectedFrames :
          Len(ret.value.counts[r]) = args.output_bin_count
    /\ ret.value.x_range[1] = 0
    /\ ret.value.x_range[2] * args.fs = ExpectedFrames * FrameTimesFs

\* C1 as stated: for every input the grid has floor((times[last] +
\* block_size/fs) * fs / output_frame_size) rows and output_bin_count
\* columns over the time range [0, rows * output_frame_size / fs).
C1_ShapeForEveryInput ==
    Done("requantize_tf_spectrogram_common") => ShapeIsExpected

\* C1 amended: the grid has that shape and time range whenever the frame
\* count and the bin count are at least 1, whatever the coordinates and the
\* weights are; with a frame or bin count of 0 the call raises and returns
\* no grid.
C1_ShapeWhenNonEmpty ==
    Done("requantize_tf_spectrogram_common")
    => IF ExpectedFrames >= 1 /\ args.output_bin_count >= 1
       THEN ShapeIsExpected
       ELSE ~ret.ok

C1_Witness ==
    /\ Done("requantize_tf_spectrogram_common")
    /\ ExpectedFrames >= 2
    /\ EndTimesFs % FrameTimesFs # 0
    /\ ShapeIsExpected

WeightOf(i) == IF args.weights = <<>> THEN 1 ELSE args.weights[i]

TimeInRange(i) ==
    /\ 0 <= args.X_time[i] * args.fs
    /\ args.X_time[i] * args.fs <= ExpectedFrames * FrameTimesFs

YInRange(i) ==
    /\ args.bin_range[1] <= args.X_y[i]
    /\ args.X_y[i] <= args.bin_range[2]

\* sample i lies in output frame r (from 0): [r, r + 1) frames, the last
\* frame with its upper edge
InFrame(i, r) ==
    \/ /\ r * FrameTimesFs <= args.X_time[i] * args.fs
       /\ args.X_time[i] * args.fs < (r + 1) * FrameTimesFs
    \/ /\ r = ExpectedFrames - 1
       /\ args.X_time[i] * args.fs = ExpectedFrames * FrameTimesFs

\* sample i lies in output bin c (from 0) of the equal-width bins
InBin(i, c) ==
    LET width == args.bin_range[2] - args.bin_range[1]
        offset == (args.X_y[i] - args.bin_range[1]) * args.output_bin_count
    IN  \/ c * width <= offset /\ offset < (c + 1) * width
        \/ c = args.output_bin_count - 1 /\ args.X_y[i] = args.bin_range[2]

CellsAreSums ==
    /\ ret.ok
    /\ \A r \in 1..ExpectedFrames : \A c \in 1..args.output_bin_count :
          ret.value.counts[r][c] =
              SumSeq([i \in 1..Len(args.X_time) |->
                  IF InFrame(i, r - 1) /\ InBin(i, c - 1)
                  THEN WeightOf(i) ELSE 0])
    /\ SumSeq([r \in 1..ExpectedFrames |-> SumSeq(ret.value.counts[r])]) =
          SumSeq([i \in 1..Len(args.X_time) |->
              IF TimeInRange(i) /\ YInRange(i) THEN WeightOf(i) ELSE 0])

\* C2 as stated: every in-range sample adds its weight to exactly the cell
\* of its frame and bin, every other sample is dropped without an error,
\* and the cells sum to the weights of the in-range samples.
C2_InRangeWeightsForEveryInput ==
    Done("requantize_tf_spectrogram_common") => CellsAreSums

\* C2 amended: the same, whenever the frame count and the bin count are at
\* least 1 (with a count of 0 the call raises, whatever the samples are).
C2_InRangeWeightsWhenNonEmpty ==
    (/\ Done("requantize_tf_spectrogram_common")
     /\ ExpectedFrames >= 1
     /\ args.output_bin_count >= 1)
    => CellsAreSums

C2_Witness ==
    /\ Done("requantize_tf_spectrogram_common")
    /\ Len(args.X_time) = 2
    /\ TimeInRange(1) /\ YInRange(1)
    /\ ~TimeInRange(2)
    /\ CellsAreSums
    /\ \E r \in 1..ExpectedFrames : \E c \in 1..args.output_bin_count :
          ret.value.counts[r][c] = args.weights[1]

\* ------------------------------------------ frequency-axis transform strategies

\* transform_freqs_spectrogram(positive_only)(X_inst_freqs); normalized
\* frequencies are in eighths (as arg returns them), so (0, 0.5) is <<0, 4>>
transform_freqs_spectrogram(positive_only, X_inst_freqs) ==
    [X_y |-> X_inst_freqs,
     output_bin_count |-> Len(X_inst_freqs[1]),
     bin_range |-> IF positive_only THEN <<0, 4>> ELSE <<0, 8>>]

RECURSIVE GCD(_, _)
GCD(a, b) == IF b = 0 THEN a ELSE GCD(b, a % b)

RECURSIVE Pow(_, _)
Pow(b, k) == IF k = 0 THEN 1 ELSE b * Pow(b, k - 1)

\* floor(log2(P / Q)) for P, Q > 0
RECURSIVE Log2Floor(_, _)
Log2Floor(P, Q) ==
    IF P >= 2 * Q THEN Log2Floor(P, 2 * Q) + 1
    ELSE IF P < Q THEN Log2Floor(2 * P, Q) - 1
    ELSE 0

\* P / Q divided by 2 ^ Log2Floor(P, Q), in [1, 2), in lowest terms
RECURSIVE Mantissa(_, _)
Mantissa(P, Q) ==
    IF P >= 2 * Q THEN Mantissa(P, 2 * Q)
    ELSE IF P < Q THEN Mantissa(2 * P, Q)
    ELSE <<P \div GCD(P, Q), Q \div GCD(P, Q)>>

\* tuning.PitchQuantizer(Tuning(), bin_division).quantize of the frequency
\* P / Q Hz: the frequency's pitch rounded to the nearest 1 / bin_division,
\* returned in units of 1 / bin_division.  The tuning has its base
\* frequency (pitch 0) at 1 Hz and one pitch step per octave, so
\* round(d * log2(f)) = m  iff  2^(2m-1) <= f^(2d) < 2^(2m+1): exact in
\* integers, and never a tie for a rational f.
quantize(P, Q, bin_division) ==
    LET m == Mantissa(P, Q)
        num == Pow(m[1], 2 * bin_division)
        den == Pow(m[2], 2 * bin_division)
        j == CHOOSE j \in 0..bin_division :
                /\ j = 0 \/ num >= den * Pow(2, 2 * j - 1)
                /\ j = bin_division \/ num < den * Pow(2, 2 * j + 1)
    IN  bin_division * Log2Floor(P, Q) + j

\* quantize(np.maximum(fs * f, eps)) of one normalized frequency f (in
\* eighths), as the standalone chromagram calls it
QuantizeHz(fs, f, bin_division) ==
    IF fs * f = 0 THEN quantize(1, EpsDen, bin_division)
    ELSE quantize(fs * f, 8, bin_division)

\* quantize(np.maximum(fs * f, eps) + quantization_border), line 139: the
\* border 1 / (2 * bin_division) is added to the frequency in Hz.  For
\* f = 0 the sum is eps + border, which quantizes as the border does (no
\* rounding boundary lies within eps of it).
QuantizeHzWithBorder(fs, f, bin_division) ==
    IF fs * f = 0 THEN quantize(1, 2 * bin_division, bin_division)
    ELSE quantize(2 * bin_division * fs * f + 8, 16 * bin_division, bin_division)

\* transform_freqs_chromagram(fs, bin_range, bin_division)(X_inst_freqs);
\* X_y and the returned bin_range are in units of 1 / bin_division
transform_freqs_chromagram(fs, bin_range, bin_division, X_inst_freqs) ==
    [X_y |-> [b \in 1..Len(X_inst_freqs) |->
                [k \in 1..Len(X_inst_freqs[b]) |->
                    QuantizeHzWithBorder(fs, X_inst_freqs[b][k], bin_division)]],
     output_bin_count |-> (bin_range[2] - bin_range[1]) * bin_division,
     bin_range |-> <<bin_range[1] * bin_division, bin_range[2] * bin_division>>]

\* transform_freqs_func(X_y) for a strategy built by one of the factories
transform_freqs_func(strategy, X_y) ==
    IF strategy.kind = "spectrogram"
    THEN transform_freqs_spectrogram(strategy.positive_only, X_y)
    ELSE transform_freqs_chromagram(strategy.fs, strategy.bin_range,
                                    strategy.bin_division, X_y)

\* ------------------------------------------------- reassigned_tf_spectrogram

RECURSIVE flatten(_)
flatten(rows) == IF rows = <<>> THEN <<>> ELSE Head(rows) \o flatten(Tail(rows))

\* spectrogram.fftfreqs(block_size, fs) / fs: the normalized frequencies
\* k / block_size of the bins k = 0..block_size/2, in eighths
fftfreqs_normalized(block_size) ==
    [k \in 1..((block_size \div 2) + 1) |-> ((k - 1) * 8) \div block_size]

\* a slip: the block duration is taken for the block center time
block_center_time_full(block_size, fs) == (block_size * EpsDen) \div fs

\* lines 172-173: block_duration / 2, in ticks
block_center_time(block_size, fs) == ((block_size * EpsDen) \div fs) \div 2

\* The result before db_scale (an external, monotonic display scaling):
\* power is X_spectrogram ** 2.  X_time and X_y are the coordinates handed
\* to the requantizer.
reassigned_tf_spectrogram(X_group_delays, X_inst_freqs, times, block_size, output_frame_size, fs, X_mag, strategy, reassign_time, reassign_frequency) ==
    LET block_duration == (block_size * EpsDen) \div fs
        input_bin_count == Len(X_inst_freqs[1])
        X_time == [b \in 1..Len(times) |-> [k \in 1..input_bin_count |->
                    times[b] + block_center_time(block_size, fs) + 1
                    + (IF reassign_time
                       THEN (X_group_delays[b][k] * block_duration) \div 8
                       ELSE 0)]]
        X_freqs == IF reassign_frequency THEN X_inst_freqs
                   ELSE [b \in 1..Len(X_inst_freqs) |->
                            fftfreqs_normalized(block_size)]
        tr == transform_freqs_func(strategy, X_freqs)
        rq == requantize_tf_spectrogram_common(flatten(X_time), flatten(tr.X_y),
                times, block_size, output_frame_size, tr.output_bin_count,
                tr.bin_range, fs, flatten(X_mag))
    IN  IF rq.ok
        THEN [ok |-> TRUE, X_time |-> X_time, X_y |-> tr.X_y,
              power |-> [r \in 1..Len(rq.value.counts) |->
                          [c \in 1..Len(rq.value.counts[r]) |->
                              rq.value.counts[r][c] * rq.value.counts[r][c]]]]
        ELSE [ok |-> FALSE, X_time |-> X_time, X_y |-> tr.X_y,
              error |-> rq.error]

\* ---------------------------------------- calls of reassigned_tf_spectrogram

\* largest hop between two blocks, in samples
MaxHop == 2

Zeros(b, n) == [r \in 1..b |-> [k \in 1..n |-> 0]]

\* the spectra are the positive halves compute_spectra returns by default,
\* so the linear strategy is the positive-only one (as in process_spectrogram)
Strategies(f) ==
    [kind : {"spectrogram"}, positive_only : {TRUE}]
    \cup [kind : {"chromagram"}, fs : {f}, bin_range : {<<-1, 2>>},
          bin_division : {1, 2}]

\* magnitudes, group delays (eighths of a block) and instantaneous
\* frequencies (eighths of the sample rate) of b blocks of n bins
Mags(b, n) == Rows(1..2, b, n)

Delays(b, n) == Rows({-4, 1, 4}, b, n)

InstFreqs(b, n) == Rows({0, 3, 5}, b, n)

\* an array the call does not read is drawn as zeros
TFArrays ==
    UNION {[b : {b}, block_size : {n}, X_mag : Mags(b, (n \div 2) + 1),
            X_group_delays : {Zeros(b, (n \div 2) + 1)},
            X_inst_freqs : {Zeros(b, (n \div 2) + 1)},
            reassign_time : {FALSE}, reassign_frequency : {FALSE}] :
           b \in 1..2, n \in {2, 4}}
    \cup UNION {[b : {b}, block_size : {2}, X_mag : Mags(b, 2),
            X_group_delays : Delays(b, 2),
            X_inst_freqs : {Zeros(b, 2)},
            reassign_time : {TRUE}, reassign_frequency : {FALSE}] :
           b \in 1..2}
    \cup UNION {[b : {b}, block_size : {2}, X_mag : Mags(b, 2),
            X_group_delays : {Zeros(b, 2)},
            X_inst_freqs : InstFreqs(b, 2),
            reassign_time : {FALSE}, reassign_frequency : {TRUE}] :
           b \in 1..2}
    \cup [b : {1}, block_size : {2}, X_mag : Mags(1, 2),
          X_group_delays : Delays(1, 2),
          X_inst_freqs : InstFreqs(1, 2),
          reassign_time : {TRUE}, reassign_frequency : {TRUE}]

InitTF ==
    /\ pc = "call"
    /\ ret = NoRet
    /\ fn = "reassigned_tf_spectrogram"
    /\ \E a \in TFArrays, f \in SampleRates, hop \in 1..MaxHop,
          frame \in 1..MaxFrame :
          \E st \in Strategies(f) :
             args = [X_group_delays |-> a.X_group_delays,
                     X_inst_freqs |-> a.X_inst_freqs,
                     times |-> [i \in 1..a.b |-> ((i - 1) * hop * EpsDen) \div f],
                     block_size |-> a.block_size,
                     output_frame_size |-> frame,
                     fs |-> f,
                     X_mag |-> a.X_mag,
                     transform_freqs_func |-> st,
                     reassign_time |-> a.reassign_time,
                     reassign_frequency |-> a.reassign_frequency]

CallReassignedTF ==
    /\ pc = "call" /\ fn = "reassigned_tf_spectrogram"
    /\ Return(reassigned_tf_spectrogram(args.X_group_delays, args.X_inst_freqs,
            args.times, args.block_size, args.output_frame_size, args.fs,
            args.X_mag, args.transform_freqs_func,
            args.reassign_time, args.reassign_frequency))

NextTF == CallReassignedTF

SpecTF == InitTF /\ [][NextTF]_vars

\* ---------------------------------------- reassigned_tf_spectrogram: claims

PlainRebinning ==
    /\ Done("reassigned_tf_spectrogram")
    /\ ~args.reassign_time
    /\ ~args.reassign_frequency
    /\ args.transform_freqs_func.kind = "spectrogram"

\* the center time of block b plus eps, in ticks times fs
CenterTimesFs(b) ==
    args.times[b] * args.fs + (args.block_size * EpsDen) \div 2 + args.fs

\* block b lies in output frame r (from 1) by its center time
CenterInFrame(b, r) ==
    \/ /\ (r - 1) * FrameTimesFs <= CenterTimesFs(b)
       /\ CenterTimesFs(b) < r * FrameTimesFs
    \/ /\ r = ExpectedFrames
       /\ CenterTimesFs(b) = ExpectedFrames * FrameTimesFs

\* bin k (from 1) of the STFT, of frequency (k - 1) / block_size, lies in
\* output bin c (from 1) of n equal bins over [0, 1/2] or [0, 1]
FreqInBin(k, c, n) ==
    LET twice == IF args.transform_freqs_func.positive_only THEN 1 ELSE 2
    IN  \/ /\ (c - 1) * args.block_size * twice <= 2 * (k - 1) * n
           /\ 2 * (k - 1) * n < c * args.block_size * twice
        \/ /\ c = n
           /\ 2 * (k - 1) = args.block_size * twice

\* C3: with reassign_time = False, reassign_frequency = False and the
\* linear-frequency strategy, each cell of the grid before dB scaling holds
\* the sum of X_mag^2 of the STFT samples (block center time, bin frequency)
\* that fall in it.
C3_PlainIsRebinnedPower ==
    (PlainRebinning /\ ret.ok)
    => \A r \in 1..Len(ret.power) : \A c \in 1..Len(ret.power[r]) :
          ret.power[r][c] =
              SumSeq(flatten([b \in 1..Len(args.X_mag) |->
                  [k \in 1..Len(args.X_mag[b]) |->
                      IF CenterInFrame(b, r)
                         /\ FreqInBin(k, c, Len(args.X_mag[b]))
                      THEN args.X_mag[b][k] * args.X_mag[b][k] ELSE 0]]))

\* C10: with reassign_time = True every time coordinate, less eps, lies in
\* its block's span [times[b], times[b] + block_size/fs]; with
\* reassign_time = False it is the block's center time plus eps.
C10_TimeStaysInBlock ==
    Done("reassigned_tf_spectrogram")
    => \A b \in 1..Len(args.times) : \A k \in 1..Len(args.X_inst_freqs[b]) :
          IF args.reassign_time
          THEN /\ args.times[b] * args.fs <= (ret.X_time[b][k] - 1) * args.fs
               /\ (ret.X_time[b][k] - 1) * args.fs
                    <= args.times[b] * args.fs + args.block_size * EpsDen
          ELSE 2 * (ret.X_time[b][k] - 1 - args.times[b]) * args.fs
                    = args.block_size * EpsDen

C10_Witness ==
    /\ Done("reassigned_tf_spectrogram")
    /\ args.reassign_time
    /\ Len(args.times) = 2
    /\ args.X_group_delays[2][1] = 4
    /\ args.X_group_delays[2][2] = -4
    /\ (ret.X_time[2][1] - 1) * args.fs
          = args.times[2] * args.fs + args.block_size * EpsDen
    /\ ret.X_time[2][2] - 1 = args.times[2]

\* ------------------------------------------------------------------ chromagram

\* index of the bin of v among the bins with the given edges (a sequence):
\* edges[j] <= v < edges[j + 1], the last edge counted into the last bin;
\* -1 for a value outside the edges
EdgeIndex(v, edges) ==
    IF v < edges[1] \/ v > edges[Len(edges)] THEN -1
    ELSE IF v = edges[Len(edges)] THEN Len(edges) - 2
    ELSE (CHOOSE j \in 1..(Len(edges) - 1) : edges[j] <= v /\ v < edges[j + 1]) - 1

\* np.histogram2d(x, y, bins=(x_edges, y_edges), weights=weights)
histogram2d_edges(x, y, weights, x_edges, y_edges) ==
    [r \in 1..(Len(x_edges) - 1) |-> [c \in 1..(Len(y_edges) - 1) |->
        SumSeq([i \in 1..Len(x) |->
            IF EdgeIndex(x[i], x_edges) = r - 1 /\ EdgeIndex(y[i], y_edges) = c - 1
            THEN weights[i] ELSE 0])]]

\* np.arange(bin_range[0], bin_range[1] + 1, 1 / bin_division), in units of
\* 1 / bin_division: (bin_range[1] + 1 - bin_range[0]) * bin_division edges
pitch_edges(bin_range, bin_division) ==
    [j \in 1..((bin_range[2] + 1 - bin_range[1]) * bin_division) |->
        bin_range[1] * bin_division + j - 1]

\* chromagram(x, w, fs, bin_range, bin_division), before db_scale: power is
\* X_chromagram ** 2; pitch_bins (in units of 1 / bin_division) and
\* X_inst_freqs are the values it bins.
chromagram(x, w, fs, bin_range, bin_division) ==
    LET sp == compute_spectra(x, w, TRUE)
    IN  IF ~sp.ok THEN sp
        ELSE
        LET n_blocks == Len(sp.value.X)
            n_freqs == Len(sp.value.X[1])
            pitch_bins == [b \in 1..n_blocks |-> [k \in 1..n_freqs |->
                QuantizeHz(fs, sp.value.X_inst_freqs[b][k], bin_division)]]
            y_edges == pitch_edges(bin_range, bin_division)
            counts == histogram2d_edges(
                flatten([b \in 1..n_blocks |-> [k \in 1..n_freqs |-> b - 1]]),
                flatten(pitch_bins),
                flatten(sp.value.X_mag),
                [j \in 1..(n_blocks + 1) |-> j - 1],
                y_edges)
        IN  [ok |-> TRUE,
             X_inst_freqs |-> sp.value.X_inst_freqs,
             pitch_bins |-> pitch_bins,
             y_edges |-> y_edges,
             power |-> [r \in 1..Len(counts) |-> [c \in 1..Len(counts[r]) |->
                          counts[r][c] * counts[r][c]]]]

\* largest sample rate of a chromagram call, in Hz
MaxFs == 4

PitchRanges == {<<0, 3>>, <<1, 4>>}

InitChroma ==
    /\ pc = "call"
    /\ ret = NoRet
    /\ fn = "chromagram"
    /\ \E b \in 1..MaxRows, n \in BlockLens :
          args \in [x : {Array2("float", b, n, d) : d \in Rows((-1)..MaxVal, b, n)},
                    w : Windows(n), fs : 1..MaxFs,
                    bin_range : PitchRanges, bin_division : {1, 2}]

CallChromagram ==
    /\ pc = "call" /\ fn = "chromagram"
    /\ Return(chromagram(args.x, args.w, args.fs, args.bin_range,
                         args.bin_division))

NextChroma == CallChromagram

SpecChroma == InitChroma /\ [][NextChroma]_vars

\* the strategy-based path on the frequencies the chromagram binned
StrategyPath ==
    transform_freqs_chromagram(args.fs, args.bin_range, args.bin_division,
                               ret.X_inst_freqs)

SameColumnCount ==
    Len(ret.y_edges) - 1 = StrategyPath.output_bin_count

SameColumns ==
    \A b \in 1..Len(ret.pitch_bins) : \A k \in 1..Len(ret.pitch_bins[b]) :
        EdgeIndex(ret.pitch_bins[b][k], ret.y_edges) =
            BinIndex(StrategyPath.X_y[b][k], StrategyPath.bin_range[1],
                     StrategyPath.bin_range[2], StrategyPath.output_bin_count)

\* C4: the standalone chromagram puts every sample in the same pitch column,
\* among the same number of columns, as transform_freqs_chromagram followed
\* by the requantizer's histogram over bin_range with
\* (bin_range[1] - bin_range[0]) * bin_division bins.
C4_ChromagramMatchesStrategy ==
    (Done("chromagram") /\ ret.ok) => (SameColumnCount /\ SameColumns)

====
